---- MODULE Spec2Model ----
(***************************************************************************)
(* pynamodb_extras: attribute codecs (attributes.py) and ExtrasModel       *)
(* (models.py), on top of pynamodb 5.3.0 (setup.py:14).                    *)
(*                                                                         *)
(* Python strings are sequences of one-character strings; Python's None    *)
(* is the one-element sequence <<"None">>, which no string of the model    *)
(* equals because "None" is not a character of any alphabet used.          *)
(***************************************************************************)
EXTENDS Integers, Sequences, FiniteSets, TLC

VARIABLES
    \* ---- PrefixedUnicodeAttribute under test (SpecCodec)
    codec_prefix,     \* self.prefix
    codec_call,       \* last call: [op, arg, out]
    \* ---- ExtrasModel._serialize_keys (SpecKeys)
    key_cls,          \* the record type: hash-key codec and range-key descriptor
    key_call,         \* last call: [op, hash_key, range_key, out]
    \* ---- ExtrasModel._get_connection (SpecConn)
    connection_map,   \* ExtrasModel._connection_map: table name -> connection or None
    cls_connection,   \* pynamodb Model._connection of each class
    pc,               \* position of each caller inside _get_connection
    caller_cls,       \* the class each caller calls _get_connection on
    local_conn,       \* the value of super()._get_connection() a caller holds
    returned,         \* the object each caller was last returned
    constructed,      \* number of TableConnection objects constructed so far
    \* ---- a record instance of an ExtrasModel subclass (Spec)
    schema,           \* the record type: declaration order and descriptors
    values,           \* self.attribute_values, by python name
    snapshot,         \* attribute values at entry of the last operation
    raw,              \* the data handed to from_raw_data, when it is the last operation
    op,               \* the last operation on the instance
    result            \* what the last operation returned or raised

codec_vars == <<codec_prefix, codec_call>>
key_vars == <<key_cls, key_call>>
conn_vars == <<connection_map, cls_connection, pc, caller_cls, local_conn, returned, constructed>>
record_vars == <<schema, values, snapshot, raw, op, result>>
vars == <<codec_vars, key_vars, conn_vars, record_vars>>

----------------------------------------------------------------------------
(* Bounds *)

\* longest string handed to a codec
MaxStrLen == 3
\* longest prefix a PrefixedUnicodeAttribute is configured with
MaxPrefixLen == 1
\* longest attribute value of a record instance
MaxLen == 1

----------------------------------------------------------------------------
(* Values *)

None == <<"None">>

RECURSIVE StrOver(_, _)
StrOver(alphabet, n) ==
    IF n = 0 THEN {<<>>}
    ELSE LET shorter == StrOver(alphabet, n - 1)
         IN shorter \cup {Append(s, c) : s \in {t \in shorter : Len(t) = n - 1}, c \in alphabet}

Alphabet == {"p", "c"}
Strings == StrOver(Alphabet, MaxStrLen)
Prefixes == StrOver(Alphabet, MaxPrefixLen)
WireStrings == StrOver(Alphabet, MaxStrLen + MaxPrefixLen)

\* str.startswith
startswith(s, p) == Len(s) >= Len(p) /\ SubSeq(s, 1, Len(p)) = p

Ok(v) == [kind |-> "ok", val |-> v, err |-> ""]
Raise(e) == [kind |-> "raise", val |-> None, err |-> e]

----------------------------------------------------------------------------
(* Codecs: attributes.py *)

\* pynamodb 5.3.0 UnicodeAttribute.serialize / deserialize return the value
UnicodeSerialize(value) == value
UnicodeDeserialize(value) == value

\* variant: the empty string passes through without the prefix
PrefixedSerializeNoGuard(prefix, value) ==
    IF value # None
    THEN IF value # <<>> THEN prefix \o UnicodeSerialize(value) ELSE value
    ELSE value

\* PrefixedUnicodeAttribute.serialize
PrefixedSerialize(prefix, value) ==
    IF value # None
    THEN prefix \o (IF value # <<>> THEN UnicodeSerialize(value) ELSE value)
    ELSE value

\* PrefixedUnicodeAttribute.deserialize
PrefixedDeserialize(prefix, value) ==
    IF value = None THEN Ok(value)
    ELSE IF startswith(value, prefix)
         THEN Ok(SubSeq(value, Len(prefix) + 1, Len(value)))
         ELSE Raise("AttributeError")

----------------------------------------------------------------------------
(* SpecCodec: calls on one PrefixedUnicodeAttribute *)

NoCall == [op |-> "none", arg |-> None, out |-> Ok(None)]

Serialize(value) ==
    /\ codec_call' = [op |-> "serialize", arg |-> value,
                      out |-> Ok(PrefixedSerialize(codec_prefix, value))]
    /\ UNCHANGED <<codec_prefix, key_vars, conn_vars, record_vars>>

Deserialize(value) ==
    /\ codec_call' = [op |-> "deserialize", arg |-> value,
                      out |-> PrefixedDeserialize(codec_prefix, value)]
    /\ UNCHANGED <<codec_prefix, key_vars, conn_vars, record_vars>>

Next_Codec ==
    \/ \E value \in Strings \cup {None} : Serialize(value)
    \/ \E value \in WireStrings \cup {None} : Deserialize(value)

----------------------------------------------------------------------------
(* Attribute descriptors *)

NoSource == "<None>"
Callable == "<callable>"

UnicodeCodec == [kind |-> "unicode", prefix |-> <<>>]
PrefixedCodec(prefix) == [kind |-> "prefixed", prefix |-> prefix]
Codecs == {UnicodeCodec} \cup {PrefixedCodec(p) : p \in Prefixes}

\* attr.serialize(value), by the descriptor's codec
serialize(attr, value) ==
    IF attr.codec.kind = "prefixed"
    THEN PrefixedSerialize(attr.codec.prefix, value)
    ELSE UnicodeSerialize(value)

\* an attribute that is no SourcedAttributeMixin
PlainAttr(codec, null) ==
    [sourced |-> FALSE, source |-> NoSource, only_default |-> FALSE,
     source_hash_key |-> FALSE, codec |-> codec, null |-> null]

\* SourcedAttributeMixin.__init__
SourcedAttr(source, only_default, source_hash_key, codec, null) ==
    [sourced |-> TRUE, source |-> source, only_default |-> only_default,
     source_hash_key |-> source_hash_key, codec |-> codec, null |-> null]

\* SourcedAttributeMixin.__init__ raises ValueError for these arguments
InvalidRuleDefinition(source, source_hash_key) ==
    source_hash_key = FALSE /\ source = NoSource

\* a callable source: lambda value, obj, attr: "" if value else "c"
SourceCallable(value, obj, attr) ==
    IF value = None \/ value = <<>> THEN <<"c">> ELSE <<>>

----------------------------------------------------------------------------
(* SpecKeys: ExtrasModel._serialize_keys on a record type *)

\* longest hash or range key handed to _serialize_keys
MaxKeyLen == 1

Keys == StrOver(Alphabet, MaxKeyLen)
KeyNames == {"sk"}

NoAttr == [declared |-> FALSE, attr |-> PlainAttr(UnicodeCodec, FALSE)]
Declared(attr) == [declared |-> TRUE, attr |-> attr]

\* the (source, only_default, source_hash_key) arguments __init__ accepts
RuleArgs(names) ==
    {r \in [source : {NoSource, Callable} \cup names, only_default : BOOLEAN,
            source_hash_key : BOOLEAN] :
        ~InvalidRuleDefinition(r.source, r.source_hash_key)}

KeySourcedAttrs ==
    {SourcedAttr(r.source, r.only_default, r.source_hash_key, c, FALSE) :
        r \in RuleArgs(KeyNames), c \in Codecs}

KeyClasses ==
    [hash : {Declared(PlainAttr(c, FALSE)) : c \in Codecs},
     base_hash_keyname : {FALSE},
     range : {Declared(a) : a \in KeySourcedAttrs}
             \cup {Declared(PlainAttr(c, FALSE)) : c \in Codecs},
     base_range_keyname : {FALSE}]
    \cup
    [hash : {NoAttr}, base_hash_keyname : {TRUE},
     range : {NoAttr}, base_range_keyname : BOOLEAN]

\* ExtrasModel._hash_key_attribute
_hash_key_attribute(cls) ==
    IF ~cls.hash.declared /\ cls.base_hash_keyname
    THEN Declared(PlainAttr(UnicodeCodec, FALSE))
    ELSE cls.hash

\* ExtrasModel._range_key_attribute
_range_key_attribute(cls) ==
    IF ~cls.range.declared /\ cls.base_range_keyname
    THEN Declared(PlainAttr(UnicodeCodec, FALSE))
    ELSE cls.range

\* pynamodb Model._serialize_keys, reached through super()
super_serialize_keys(cls, hash_key, range_key) ==
    IF (hash_key # None /\ ~_hash_key_attribute(cls).declared)
       \/ (range_key # None /\ ~_range_key_attribute(cls).declared)
    THEN Raise("AttributeError")
    ELSE Ok(<<IF hash_key # None
              THEN serialize(_hash_key_attribute(cls).attr, hash_key) ELSE hash_key,
              IF range_key # None
              THEN serialize(_range_key_attribute(cls).attr, range_key) ELSE range_key>>)

\* variant: only_default is not looked at
DerivesRangeKeyIgnoringDefault(range_key_attr) ==
    range_key_attr.source_hash_key = TRUE

\* the test of models.py:86
DerivesRangeKey(range_key_attr) ==
    ~range_key_attr.only_default /\ range_key_attr.source_hash_key = TRUE

\* variant: the derived range key reuses the serialized hash key
_serialize_keys_reusing_hash(cls, hash_key, range_key) ==
    LET base == super_serialize_keys(cls, hash_key, range_key)
        range_key_attr == _range_key_attribute(cls)
    IN  IF base.kind = "raise" THEN base
        ELSE IF range_key_attr.declared /\ base.val[2] = None
                /\ range_key_attr.attr.sourced
                /\ DerivesRangeKey(range_key_attr.attr)
             THEN Ok(<<base.val[1], base.val[1]>>)
             ELSE base

\* ExtrasModel._serialize_keys
_serialize_keys(cls, hash_key, range_key) ==
    LET base == super_serialize_keys(cls, hash_key, range_key)
        range_key_attr == _range_key_attribute(cls)
    IN  IF base.kind = "raise" THEN base
        ELSE IF range_key_attr.declared /\ base.val[2] = None
                /\ range_key_attr.attr.sourced
                /\ DerivesRangeKey(range_key_attr.attr)
             THEN Ok(<<base.val[1], serialize(range_key_attr.attr, hash_key)>>)
             ELSE base

NoKeyCall == [op |-> "none", hash_key |-> None, range_key |-> None, out |-> Ok(None)]

SerializeKeys(hash_key, range_key) ==
    /\ key_call' = [op |-> "_serialize_keys", hash_key |-> hash_key,
                    range_key |-> range_key,
                    out |-> _serialize_keys(key_cls, hash_key, range_key)]
    /\ UNCHANGED <<key_cls, codec_vars, conn_vars, record_vars>>

Next_Keys ==
    \E hash_key \in Keys \cup {None}, range_key \in Keys \cup {None} :
        SerializeKeys(hash_key, range_key)

----------------------------------------------------------------------------
(* SpecConn: concurrent callers of ExtrasModel._get_connection.            *)
(* A caller is a thread; the interpreter switches threads between the      *)
(* steps of lines 27-29. A connection object is a positive number, the     *)
(* number 0 stands for "no object". super()._get_connection() is taken as  *)
(* one step: pynamodb builds a TableConnection unless the class already    *)
(* holds one in cls._connection.                                           *)
(***************************************************************************)

Callers == {"t1", "t2"}
Classes == {"A", "B", "C"}
Tables == {"T1", "T2"}

\* cls.Meta.table_name: A and B are two entities of one table
table_name(cls) == IF cls = "C" THEN "T2" ELSE "T1"

\* a caller enters cls._get_connection()
Call(t, cls) ==
    /\ pc[t] = "idle"
    /\ pc' = [pc EXCEPT ![t] = "check"]
    /\ caller_cls' = [caller_cls EXCEPT ![t] = cls]
    /\ UNCHANGED <<connection_map, cls_connection, local_conn, returned, constructed,
                   codec_vars, key_vars, record_vars>>

\* line 27: if cls.Meta.table_name not in ExtrasModel._connection_map
CheckAbsent(t) ==
    /\ pc[t] = "check"
    /\ pc' = [pc EXCEPT ![t] =
                IF connection_map[table_name(caller_cls[t])] = 0
                THEN "construct" ELSE "return"]
    /\ UNCHANGED <<connection_map, cls_connection, caller_cls, local_conn, returned,
                   constructed,
                   codec_vars, key_vars, record_vars>>

\* line 28, right-hand side: super()._get_connection()
SuperGetConnection(t) ==
    LET cls == caller_cls[t]
        fresh == constructed["T1"] + constructed["T2"] + 1
    IN  /\ pc[t] = "construct"
        /\ IF cls_connection[cls] = 0
           THEN /\ cls_connection' = [cls_connection EXCEPT ![cls] = fresh]
                /\ constructed' = [constructed EXCEPT ![table_name(cls)] = @ + 1]
                /\ local_conn' = [local_conn EXCEPT ![t] = fresh]
           ELSE /\ local_conn' = [local_conn EXCEPT ![t] = cls_connection[cls]]
                /\ UNCHANGED <<cls_connection, constructed,
                   codec_vars, key_vars, record_vars>>
        /\ pc' = [pc EXCEPT ![t] = "store"]
        /\ UNCHANGED <<connection_map, caller_cls, returned,
                   codec_vars, key_vars, record_vars>>

\* line 28, assignment: ExtrasModel._connection_map[table_name] = ...
StoreConnection(t) ==
    /\ pc[t] = "store"
    /\ connection_map' = [connection_map EXCEPT
                             ![table_name(caller_cls[t])] = local_conn[t]]
    /\ pc' = [pc EXCEPT ![t] = "return"]
    /\ UNCHANGED <<cls_connection, caller_cls, local_conn, returned, constructed,
                   codec_vars, key_vars, record_vars>>

\* line 29: return ExtrasModel._connection_map[cls.Meta.table_name]
ReturnConnection(t) ==
    /\ pc[t] = "return"
    /\ returned' = [returned EXCEPT ![t] =
                       [table |-> table_name(caller_cls[t]),
                        conn |-> connection_map[table_name(caller_cls[t])]]]
    /\ pc' = [pc EXCEPT ![t] = "idle"]
    /\ UNCHANGED <<connection_map, cls_connection, caller_cls, local_conn, constructed,
                   codec_vars, key_vars, record_vars>>

Next_Conn ==
    \E t \in Callers :
        \/ \E cls \in Classes : Call(t, cls)
        \/ CheckAbsent(t)
        \/ SuperGetConnection(t)
        \/ StoreConnection(t)
        \/ ReturnConnection(t)

----------------------------------------------------------------------------
(* Spec: one record instance of an ExtrasModel subclass with hash key pk   *)
(* and attributes a and b, in the order get_attributes() iterates them.    *)
(***************************************************************************)

Names == {"pk", "a", "b"}
HashKeyName == "pk"
PrivateNames == {}
Values == StrOver({"c"}, MaxLen) \cup {None}

\* attr.attr_name, the wire name of each attribute
attr_name(name) == CASE name = "pk" -> "PK" [] name = "a" -> "A" [] OTHER -> "B"

\* the descriptors a and b may carry: nullable, plain or sourced from None
\* (with source_hash_key), from a callable or from another attribute
RecordAttrs(name) ==
    {SourcedAttr(r.source, r.only_default, r.source_hash_key, UnicodeCodec, TRUE) :
        r \in {x \in RuleArgs(Names \ {name}) : x.source_hash_key = (x.source = NoSource)}}
    \cup {PlainAttr(UnicodeCodec, TRUE)}

Schemas ==
    {[order |-> o, attrs |-> [n \in Names |->
                                 IF n = "pk" THEN PlainAttr(UnicodeCodec, FALSE)
                                 ELSE IF n = "a" THEN da ELSE db]] :
        o \in {<<"pk", "a", "b">>, <<"pk", "b", "a">>},
        da \in RecordAttrs("a"), db \in RecordAttrs("b")}

\* SourcedAttributeMixin.get_source_value, value yielded by the rule alone
RuleValue(attr, obj, value) ==
    IF attr.source = NoSource /\ attr.source_hash_key THEN obj[HashKeyName]
    ELSE IF attr.source = Callable THEN SourceCallable(value, obj, attr)
    ELSE obj[attr.source]

\* variant: only_default is ignored
get_source_value_always(attr, obj, value) == RuleValue(attr, obj, value)

\* SourcedAttributeMixin.get_source_value
get_source_value(attr, obj, value) ==
    IF attr.only_default /\ value # None THEN value
    ELSE RuleValue(attr, obj, value)

\* the loop of _set_sourced_attributes and of _container_serialize, lines 35-37
RECURSIVE SetSourced(_, _, _)
SetSourced(sch, obj, i) ==
    IF i > Len(sch.order) THEN obj
    ELSE LET name == sch.order[i]
             attr == sch.attrs[name]
         IN  SetSourced(sch,
                        IF attr.sourced
                        THEN [obj EXCEPT ![name] = get_source_value(attr, obj, obj[name])]
                        ELSE obj,
                        i + 1)

\* ExtrasModel._set_sourced_attributes
_set_sourced_attributes(sch, obj) == SetSourced(sch, obj, 1)

OkMap(m) == [kind |-> "ok", err |-> "", path |-> "", map |-> m]
RaiseAt(e, path) == [kind |-> "raise", err |-> e, path |-> path, map |-> {}]

\* an attribute whose null check fails (models.py:128, and pynamodb's own)
NullFails(sch, obj, name, null_check) ==
    null_check /\ serialize(sch.attrs[name], obj[name]) = None /\ ~sch.attrs[name].null

\* pynamodb AttributeContainer._container_serialize, reached through super()
super_container_serialize(sch, obj, null_check) ==
    LET failing == {i \in 1..Len(sch.order) : NullFails(sch, obj, sch.order[i], null_check)}
    IN  IF failing # {}
        THEN RaiseAt("AttributeNullError",
                     sch.order[CHOOSE i \in failing : \A j \in failing : i <= j])
        ELSE OkMap({<<attr_name(n), serialize(sch.attrs[n], obj[n])>> :
                       n \in {m \in Names : obj[m] # None}})

\* ExtrasModel.serialize_value, the value returned when it does not raise
serialize_value(sch, obj, name) ==
    IF obj[name] # None THEN serialize(sch.attrs[name], obj[name]) ELSE None

\* ExtrasModel.as_dict, lines 142-163: the selected keys
allowed_keys(fields, exclude) ==
    LET _fields == IF fields.given \/ exclude.given THEN fields
                   ELSE [given |-> TRUE, all |-> TRUE, names |-> {}]
        _exclude == IF fields.given \/ exclude.given THEN exclude
                    ELSE [given |-> TRUE, all |-> FALSE, names |-> {}]
    IN  IF _exclude.given /\ _exclude.names # {}
        THEN {key \in Names : key \notin PrivateNames /\ key \notin _exclude.names}
        ELSE IF _fields.given /\ ~_fields.all
             THEN {key \in Names : key \in _fields.names}
             ELSE {key \in Names : key \notin PrivateNames}

\* ExtrasModel.as_dict: the results it can end with
as_dict(sch, obj, fields, exclude, null_check, use_python_names) ==
    IF fields.given /\ exclude.given
    THEN {RaiseAt("AttributeError", "")}
    ELSE LET keys == allowed_keys(fields, exclude)
             failing == {n \in keys : NullFails(sch, obj, n, null_check)}
         IN  IF failing # {}
             THEN {RaiseAt("AttributeNullError", n) : n \in failing}
             ELSE {OkMap({<<IF use_python_names THEN n ELSE attr_name(n),
                            serialize_value(sch, obj, n)>> : n \in keys})}

NoSelector == [given |-> FALSE, all |-> FALSE, names |-> {}]
Selector(names) == [given |-> TRUE, all |-> FALSE, names |-> names]
Selectors == {NoSelector, Selector({"a"})}

AllNone == [n \in Names |-> None]

NoData == [present |-> FALSE, items |-> AllNone]

\* a constructor has returned an instance
HasInstance == op # "none" /\ ~(op = "from_raw_data" /\ result.kind = "raise")

\* cls(**kwargs): Model.__init__ -> _set_attributes -> _set_sourced_attributes
Construct(kwargs) ==
    /\ op = "none"
    /\ snapshot' = kwargs
    /\ values' = _set_sourced_attributes(schema, kwargs)
    /\ op' = "construct"
    /\ result' = OkMap({})
    /\ raw' = NoData
    /\ UNCHANGED <<schema, codec_vars, key_vars, conn_vars>>

\* instance.name = value
Assign(name, value) ==
    /\ HasInstance
    /\ values' = [values EXCEPT ![name] = value]
    /\ snapshot' = values'
    /\ op' = "assign"
    /\ result' = OkMap({})
    /\ raw' = NoData
    /\ UNCHANGED <<schema, codec_vars, key_vars, conn_vars>>

\* variant: _container_serialize without the injected derivation
EncodeWithoutDerivation(null_check) ==
    /\ HasInstance
    /\ snapshot' = values
    /\ values' = values
    /\ op' = "encode"
    /\ result' = super_container_serialize(schema, values', null_check)
    /\ raw' = NoData
    /\ UNCHANGED <<schema, codec_vars, key_vars, conn_vars>>

\* instance.serialize(null_check) -> ExtrasModel._container_serialize
Encode(null_check) ==
    /\ HasInstance
    /\ snapshot' = values
    /\ values' = _set_sourced_attributes(schema, values)
    /\ op' = "encode"
    /\ result' = super_container_serialize(schema, values', null_check)
    /\ raw' = NoData
    /\ UNCHANGED <<schema, codec_vars, key_vars, conn_vars>>

\* variant: the export derives the sourced attributes first, as encode does
ExportDeriving(fields, exclude, null_check, use_python_names) ==
    /\ HasInstance
    /\ snapshot' = values
    /\ values' = _set_sourced_attributes(schema, values)
    /\ op' = "export"
    /\ result' \in as_dict(schema, values', fields, exclude, null_check, use_python_names)
    /\ raw' = NoData
    /\ UNCHANGED <<schema, codec_vars, key_vars, conn_vars>>

\* instance.as_dict(fields, exclude, null_check, use_python_names)
Export(fields, exclude, null_check, use_python_names) ==
    /\ HasInstance
    /\ snapshot' = values
    /\ values' = values
    /\ op' = "export"
    /\ result' \in as_dict(schema, values, fields, exclude, null_check, use_python_names)
    /\ raw' = NoData
    /\ UNCHANGED <<schema, codec_vars, key_vars, conn_vars>>

RawData == [present : BOOLEAN, items : [Names -> Values]]

\* pynamodb Model._instantiate: a fresh instance holding the decoded items
_instantiate(sch, data) ==
    [n \in Names |-> IF data.items[n] # None THEN UnicodeDeserialize(data.items[n]) ELSE None]

\* variant: "if not data" in place of "if data is None"
from_raw_data_falsy(data) ==
    IF ~data.present \/ data.items = AllNone THEN RaiseAt("ValueError", "") ELSE OkMap({})

\* ExtrasModel.from_raw_data: raises, or returns _instantiate(data)
from_raw_data(data) ==
    IF ~data.present THEN RaiseAt("ValueError", "") ELSE OkMap({})

\* cls.from_raw_data(data), in place of the constructor
FromRawData(data) ==
    /\ op = "none"
    /\ data.present \/ data.items = AllNone
    /\ raw' = data
    /\ op' = "from_raw_data"
    /\ result' = from_raw_data(data)
    /\ values' = IF result'.kind = "ok" THEN _instantiate(schema, data) ELSE values
    /\ snapshot' = values'
    /\ UNCHANGED <<schema, codec_vars, key_vars, conn_vars>>

Next_Record ==
    \/ \E kwargs \in [Names -> Values] : Construct(kwargs)
    \/ \E name \in Names, value \in Values : Assign(name, value)
    \/ \E null_check \in BOOLEAN : Encode(null_check)
    \/ \E fields \in Selectors, exclude \in Selectors,
          null_check \in BOOLEAN, use_python_names \in BOOLEAN :
           Export(fields, exclude, null_check, use_python_names)
    \/ \E data \in RawData : FromRawData(data)

----------------------------------------------------------------------------
(* Specifications *)

IdleKeyClass == CHOOSE cls \in KeyClasses : TRUE
IdleSchema == CHOOSE sch \in Schemas : TRUE
NoCallers == [t \in Callers |-> 0]

\* a record type is declared; no instance exists yet
Init ==
    /\ schema \in Schemas
    /\ values = AllNone /\ snapshot = AllNone /\ raw = NoData /\ op = "none"
    /\ result = OkMap({})
    /\ codec_prefix = <<>> /\ codec_call = NoCall
    /\ key_cls = IdleKeyClass /\ key_call = NoKeyCall
    /\ connection_map = [t \in Tables |-> 0] /\ cls_connection = [c \in Classes |-> 0]
    /\ pc = [t \in Callers |-> "idle"] /\ caller_cls = [t \in Callers |-> "A"]
    /\ local_conn = NoCallers /\ constructed = [t \in Tables |-> 0]
    /\ returned = [t \in Callers |-> [table |-> "", conn |-> 0]]

\* a PrefixedUnicodeAttribute is constructed with some prefix
InitCodec ==
    /\ codec_prefix \in Prefixes /\ codec_call = NoCall
    /\ schema = IdleSchema
    /\ values = AllNone /\ snapshot = AllNone /\ raw = NoData /\ op = "none"
    /\ result = OkMap({})
    /\ key_cls = IdleKeyClass /\ key_call = NoKeyCall
    /\ connection_map = [t \in Tables |-> 0] /\ cls_connection = [c \in Classes |-> 0]
    /\ pc = [t \in Callers |-> "idle"] /\ caller_cls = [t \in Callers |-> "A"]
    /\ local_conn = NoCallers /\ constructed = [t \in Tables |-> 0]
    /\ returned = [t \in Callers |-> [table |-> "", conn |-> 0]]

\* a record type with its key attributes is declared
InitKeys ==
    /\ key_cls \in KeyClasses /\ key_call = NoKeyCall
    /\ schema = IdleSchema
    /\ values = AllNone /\ snapshot = AllNone /\ raw = NoData /\ op = "none"
    /\ result = OkMap({})
    /\ codec_prefix = <<>> /\ codec_call = NoCall
    /\ connection_map = [t \in Tables |-> 0] /\ cls_connection = [c \in Classes |-> 0]
    /\ pc = [t \in Callers |-> "idle"] /\ caller_cls = [t \in Callers |-> "A"]
    /\ local_conn = NoCallers /\ constructed = [t \in Tables |-> 0]
    /\ returned = [t \in Callers |-> [table |-> "", conn |-> 0]]

\* _connection_map = {} (models.py:20) and no class holds a connection
InitConn ==
    /\ connection_map = [t \in Tables |-> 0] /\ cls_connection = [c \in Classes |-> 0]
    /\ pc = [t \in Callers |-> "idle"] /\ caller_cls = [t \in Callers |-> "A"]
    /\ local_conn = NoCallers /\ constructed = [t \in Tables |-> 0]
    /\ returned = [t \in Callers |-> [table |-> "", conn |-> 0]]
    /\ schema = IdleSchema
    /\ values = AllNone /\ snapshot = AllNone /\ raw = NoData /\ op = "none"
    /\ result = OkMap({})
    /\ codec_prefix = <<>> /\ codec_call = NoCall
    /\ key_cls = IdleKeyClass /\ key_call = NoKeyCall

\* a record instance through its life
Spec == Init /\ [][Next_Record]_vars

\* calls on one PrefixedUnicodeAttribute
SpecCodec == InitCodec /\ [][Next_Codec]_vars

\* key derivation on one record type
SpecKeys == InitKeys /\ [][Next_Keys]_vars

\* concurrent callers of _get_connection
SpecConn == InitConn /\ [][Next_Conn]_vars

----------------------------------------------------------------------------
(* Properties of a derivation pass (Spec) *)

DerivationPass == op \in {"construct", "encode"}

Sourced(n) == schema.attrs[n].sourced

\* position of an attribute in the iteration order
Position(n) == CHOOSE i \in 1..Len(schema.order) : schema.order[i] = n

\* the instance as get_source_value of attribute n saw it during the last pass
Seen(n) ==
    [m \in Names |-> IF Position(m) < Position(n) THEN values[m] ELSE snapshot[m]]

\* the rule of attribute n applies to the value it held at entry
RuleApplies(n) == ~schema.attrs[n].only_default \/ snapshot[n] = None

\* attribute a is a named reference to attribute b
NamedReference(a, b) == Sourced(a) /\ schema.attrs[a].source = b

\* C1: after a derivation pass (construction or encode), every attribute A
\* whose named-reference rule to B applied holds the value B had before the
\* pass started, also when B carries a derivation rule itself, whatever the
\* iteration order of A and B.
C1_ReadsPreDerivationSnapshot ==
    DerivationPass =>
        \A a \in Names, b \in Names :
            (NamedReference(a, b) /\ RuleApplies(a) /\ Sourced(b))
                => values[a] = snapshot[b]

\* C6: get_source_value with only_default=true returns the current value
\* when it is present and the rule's value when it is absent; with
\* only_default=false the rule's value always overrides the current value.
C6_OnlyDefault ==
    DerivationPass =>
        \A n \in Names :
            Sourced(n) =>
                values[n] = IF schema.attrs[n].only_default /\ snapshot[n] # None
                            THEN snapshot[n]
                            ELSE RuleValue(schema.attrs[n], Seen(n), snapshot[n])

\* a pass kept a present value although the rule yields another one
C6_Witness ==
    /\ op = "encode"
    /\ \E n \in Names :
          /\ Sourced(n) /\ schema.attrs[n].only_default /\ snapshot[n] # None
          /\ RuleValue(schema.attrs[n], Seen(n), snapshot[n]) # snapshot[n]
          /\ values[n] = snapshot[n]

\* the attribute a rule reads carries no rule itself
SourceUnruled(n) ==
    schema.attrs[n].source \in Names => ~Sourced(schema.attrs[n].source)

\* C7: a full encode sets every attribute whose rule has only_default=false,
\* and whose source attribute carries no rule, to the value the rule yields
\* from the values held when encode was called, and the instance holds these
\* values when encode has returned or raised.
C7_EncodeRederives ==
    op = "encode" =>
        \A n \in Names :
            (Sourced(n) /\ ~schema.attrs[n].only_default /\ SourceUnruled(n))
                => values[n] = RuleValue(schema.attrs[n], snapshot, snapshot[n])

\* an encode replaced the value a named reference held since construction
C7_Witness ==
    /\ op = "encode"
    /\ \E n \in Names :
          /\ Sourced(n) /\ ~schema.attrs[n].only_default /\ SourceUnruled(n)
          /\ schema.attrs[n].source \in Names
          /\ values[n] # snapshot[n]
          /\ values[n] = snapshot[schema.attrs[n].source]

\* C10: an export leaves every attribute value as it was, whether it
\* returns or raises, and what it returns for an attribute is the encoding
\* of the stored value, not of the value the attribute's rule would yield.
C10_ExportDerivesNothing ==
    op = "export" =>
        /\ values = snapshot
        /\ result.kind = "ok" =>
              \A item \in result.map :
                  \E n \in Names :
                      /\ item[1] \in {n, attr_name(n)}
                      /\ item[2] = serialize_value(schema, snapshot, n)

\* an export returned a stale derived value: the rule would now yield another
C10_Witness ==
    /\ op = "export" /\ result.kind = "ok"
    /\ \E n \in Names :
          /\ Sourced(n) /\ ~schema.attrs[n].only_default
          /\ RuleValue(schema.attrs[n], values, values[n]) # values[n]
          /\ values[n] # None
          /\ <<n, values[n]>> \in result.map

\* C9 as stated: from_raw_data fails with ValueError when the data is None
\* and when it is an empty mapping, and returns an instance otherwise.
C9_EmptyInputRejected ==
    op = "from_raw_data" =>
        IF ~raw.present \/ raw.items = AllNone
        THEN result = RaiseAt("ValueError", "")
        ELSE result.kind = "ok"

\* C9 amended: from_raw_data fails with ValueError exactly when the data is
\* None; for every mapping, the empty one included, it returns the instance
\* _instantiate builds, which holds the decoded items and nothing else.
C9_OnlyNoneRejected ==
    op = "from_raw_data" =>
        IF ~raw.present
        THEN result = RaiseAt("ValueError", "") /\ ~HasInstance
        ELSE /\ result.kind = "ok" /\ HasInstance
             /\ \A n \in Names : values[n] = raw.items[n]

\* from_raw_data returned an instance for the empty mapping
C9_Witness ==
    /\ op = "from_raw_data" /\ raw.present /\ raw.items = AllNone
    /\ result.kind = "ok" /\ values = AllNone

----------------------------------------------------------------------------
(* Properties of key derivation (SpecKeys) *)

KeysSerialized == key_call.op = "_serialize_keys"
RangeAttr == _range_key_attribute(key_cls).attr
HashAttr == _hash_key_attribute(key_cls).attr
SourcedRangeKey == _range_key_attribute(key_cls).declared /\ RangeAttr.sourced

\* the range key's rule is a primary-key reference
PrimaryKeyReference == RangeAttr.source = NoSource /\ RangeAttr.source_hash_key

\* C3: with a primary-key-reference rule on the range key (only_default
\* false), _serialize_keys(h, None) is the pair of the hash-key codec's and
\* the range-key codec's encoding of h, and _serialize_keys(h, r) is the
\* pair of the encodings of h and r.
C3_RangeKeyFromHashKey ==
    (KeysSerialized /\ SourcedRangeKey /\ PrimaryKeyReference
        /\ ~RangeAttr.only_default)
    => key_call.out =
          Ok(<<serialize(HashAttr, key_call.hash_key),
               serialize(RangeAttr,
                         IF key_call.range_key = None
                         THEN key_call.hash_key ELSE key_call.range_key)>>)

\* a range key was derived through a codec that differs from the hash key's
C3_Witness ==
    /\ KeysSerialized /\ SourcedRangeKey /\ PrimaryKeyReference
    /\ ~RangeAttr.only_default
    /\ key_call.range_key = None /\ key_call.hash_key # None
    /\ key_call.out.kind = "ok"
    /\ key_call.out.val[2] = RangeAttr.codec.prefix \o key_call.hash_key
    /\ key_call.out.val[2] # key_call.out.val[1]

C5_RangeKeyFromCallable ==
    (KeysSerialized /\ SourcedRangeKey /\ RangeAttr.source = Callable
        /\ ~RangeAttr.only_default /\ key_call.range_key = None)
    => (/\ key_call.out.kind = "ok"
        /\ key_call.out.val[2] =
              serialize(RangeAttr, SourceCallable(key_call.hash_key, None, RangeAttr)))

----------------------------------------------------------------------------
(* Properties of the prefix codec (SpecCodec) *)

\* C8 as stated: serialize("") is "", serialize(v) of a non-empty v is the
\* prefix followed by the base encoding of v, and deserialize of a value
\* that does not start with the prefix raises.
C8_EmptyStringUnprefixed ==
    /\ (codec_call.op = "serialize" /\ codec_call.arg = <<>>)
          => codec_call.out = Ok(<<>>)
    /\ (codec_call.op = "serialize" /\ codec_call.arg \notin {<<>>, None})
          => codec_call.out = Ok(codec_prefix \o UnicodeSerialize(codec_call.arg))
    /\ (codec_call.op = "deserialize" /\ codec_call.arg # None
        /\ ~startswith(codec_call.arg, codec_prefix))
          => codec_call.out = Raise("AttributeError")

\* C8 amended: serialize("") is the prefix alone, serialize(v) of a
\* non-empty v is the prefix followed by the base encoding of v, and
\* deserialize of a value that does not start with the prefix raises.
C8_EmptyStringPrefixed ==
    /\ (codec_call.op = "serialize" /\ codec_call.arg = <<>>)
          => codec_call.out = Ok(codec_prefix)
    /\ (codec_call.op = "serialize" /\ codec_call.arg \notin {<<>>, None})
          => codec_call.out = Ok(codec_prefix \o UnicodeSerialize(codec_call.arg))
    /\ (codec_call.op = "deserialize" /\ codec_call.arg # None
        /\ ~startswith(codec_call.arg, codec_prefix))
          => codec_call.out = Raise("AttributeError")

\* the empty string was serialized under a non-empty prefix
C8_Witness ==
    /\ codec_call.op = "serialize" /\ codec_call.arg = <<>>
    /\ codec_prefix # <<>>
    /\ codec_call.out = Ok(codec_prefix)

----------------------------------------------------------------------------
(* Properties of the connection map (SpecConn) *)

\* C2: at most one connection object is ever constructed per table
\* identifier, and all callers on record types of one table are returned
\* the same object.
C2_OneConnectionPerTable ==
    /\ \A tb \in Tables : constructed[tb] <= 1
    /\ \A t1 \in Callers, t2 \in Callers :
          (returned[t1].conn # 0 /\ returned[t2].conn # 0
           /\ returned[t1].table = returned[t2].table)
          => returned[t1].conn = returned[t2].conn

====
